---- MODULE Spec2Model ----
(***************************************************************************)
(* The cross-check rustc plugin (cross-checks/rust-checks/rustc-plugin):   *)
(* CrossCheckExpander (the per-pass state: external configuration, the     *)
(* span -> scope map, the set of emitted C ABI hash functions) and         *)
(* CrossChecker (the folder: scope stack, pending items, skip_first_scope).*)
(* The recursive fold is a state machine: an item is entered (the code of  *)
(* fold_item/fold_item_simple that runs before the children are folded),   *)
(* its children are folded, and it is left (the code that runs after).     *)
(***************************************************************************)
EXTENDS Integers, Sequences, FiniteSets, TLC

VARIABLES
    phase,            \* "idle": no engine running; "fold": inside expand; "aborted": the pass panicked
    macro_scopes,     \* CrossCheckExpander.macro_scopes: the spans recorded so far, each with its config
    c_hash_functions, \* CrossCheckExpander.c_hash_functions
    scope_stack,      \* CrossChecker.scope_stack
    pending_items,    \* CrossChecker.pending_items
    skip_first_scope, \* CrossChecker.skip_first_scope
    frames,           \* the call stack of the fold: one frame per item being folded
    ret,              \* what the handler that ran last did and returned
    nodes,            \* items folded so far in this compilation
    c_hash_feature,   \* cfg!(feature = "c-hash-functions") of this build
    expand_macros,    \* cfg!(feature = "expand-macros") of this build
    borrow_flags,     \* the borrow state of the RefCells macro_scopes and c_hash_functions
    calls             \* the calls in progress, at the grain of the RefCell borrows

\* What only the steps at the grain of the borrows change
bvars == <<expand_macros, borrow_flags, calls>>

vars == <<phase, macro_scopes, c_hash_functions, scope_stack, pending_items,
          skip_first_scope, frames, ret, nodes, c_hash_feature, bvars>>

(* ------------------------------ bounds --------------------------------- *)

\* Items (and methods) folded in one compilation, over all calls of expand.
MaxItems == 3
\* Nesting depth of the items of one expand call, the root item included.
MaxDepth == 2
\* Fields of one aggregate body.
MaxFields == 3
\* Variant bodies of one enum.
MaxVariants == 2
\* Statements of one function body, items of one foreign module.
MaxStmts == 2

(* ------------------------------ Option --------------------------------- *)

None == <<>>
Some(v) == <<v>>
IsSome(o) == o # <<>>
UnwrapOr(o, d) == IF o = <<>> THEN d ELSE o[1]
\* Option::or
OptOr(a, b) == IF a # <<>> THEN a ELSE b
\* Vec::last
Last(s) == s[Len(s)]
\* Vec::pop (the remaining vector)
Front(s) == SubSeq(s, 1, Len(s) - 1)

(* --------------------------- xcfg::XCheckType --------------------------- *)

XDefault == [tag |-> "Default"]
XNone == [tag |-> "None"]
XDisabled == [tag |-> "Disabled"]
XDjb2(s) == [tag |-> "Djb2", name |-> s]
XFixed(id) == [tag |-> "Fixed", id |-> id]
XAsType(ty) == [tag |-> "AsType", ty |-> ty]
XCustom(s) == [tag |-> "Custom", expr |-> s]

\* xcfg::FieldIndex
FieldInt(i) == <<"Int", i>>
FieldStr(s) == <<"Str", s>>

(* ------------- directive parameters (inline or external) ---------------- *)

\* The parameters a #[cross_check(...)] directive or an external item entry
\* can set; None: the parameter is absent and the configuration keeps its value.
NoParams ==
    [enabled |-> None, ahasher |-> None, shasher |-> None,
     entry |-> None, exit |-> None, all_args |-> None, ret |-> None,
     args |-> <<>>, entry_extra |-> <<>>, exit_extra |-> <<>>,
     field_hasher |-> None, custom_hash |-> None, fields |-> <<>>]

\* The inherited fields
InheritedKeys == {"enabled", "ahasher", "shasher", "entry", "exit", "all_args", "ret"}

\* config::InheritedCheckConfig::default
DefaultInherited ==
    [enabled |-> TRUE, ahasher |-> None, shasher |-> None,
     entry |-> XDefault, exit |-> XDefault, all_args |-> XDefault, ret |-> XDefault]

\* The item-specific configuration of a scope (function_config / struct_config)
NewItemConfig ==
    [args |-> <<>>, entry_extra |-> <<>>, exit_extra |-> <<>>,
     field_hasher |-> None, custom_hash |-> None, fields |-> <<>>]

\* config::ScopeCheckConfig::new
NewScopeCheckConfig == [inherited |-> DefaultInherited, item |-> NewItemConfig]

\* config::ScopeCheckConfig::inherit: the inherited record is shared, the
\* item-specific part starts empty
Inherit(ccc) == [inherited |-> ccc.inherited, item |-> NewItemConfig]

\* config::ScopeCheckConfig::new_file: the configuration a new file starts from
NewFile(ccc) == [inherited |-> DefaultInherited, item |-> NewItemConfig]

\* config::ScopeCheckConfig::from_item: a child of a recovered inherited config
FromItemConfig(inh) == [inherited |-> inh, item |-> NewItemConfig]

\* f overridden by g wherever g is defined
Override(f, g) ==
    [k \in DOMAIN f \cup DOMAIN g |-> IF k \in DOMAIN g THEN g[k] ELSE f[k]]

\* Merging directive parameters p into a configuration: every parameter that
\* is present overwrites, every absent one passes through
MergeParams(ccc, p) ==
    [inherited |->
        [enabled  |-> IF p.enabled = None THEN ccc.inherited.enabled ELSE p.enabled[1],
         ahasher  |-> OptOr(p.ahasher, ccc.inherited.ahasher),
         shasher  |-> OptOr(p.shasher, ccc.inherited.shasher),
         entry    |-> UnwrapOr(p.entry, ccc.inherited.entry),
         exit     |-> UnwrapOr(p.exit, ccc.inherited.exit),
         all_args |-> UnwrapOr(p.all_args, ccc.inherited.all_args),
         ret      |-> UnwrapOr(p.ret, ccc.inherited.ret)],
     item |->
        [args         |-> Override(ccc.item.args, p.args),
         entry_extra  |-> ccc.item.entry_extra \o p.entry_extra,
         exit_extra   |-> ccc.item.exit_extra \o p.exit_extra,
         field_hasher |-> OptOr(p.field_hasher, ccc.item.field_hasher),
         custom_hash  |-> OptOr(p.custom_hash, ccc.item.custom_hash),
         fields       |-> Override(ccc.item.fields, p.fields)]]

\* config::ScopeCheckConfig::parse_attr_config (mi: the directive's parameters)
ParseAttrConfig(ccc, mi) == MergeParams(ccc, mi)

\* config::ScopeCheckConfig::parse_xcfg_config (an external item entry)
ParseXcfgConfig(ccc, xcfg) == MergeParams(ccc, xcfg.params)

(* ------------------------ external configuration ------------------------ *)

Files == {"a.rs", "c.rs"}

\* xcfg::ItemConfig::Defaults
DefaultsEntry(p) == [kind |-> "Defaults", params |-> p]
\* a named xcfg::ItemConfig, with its nested item list (for impl blocks)
NamedEntry(n, p, nested) == [kind |-> "Item", name |-> n, params |-> p, nested |-> nested]

\* CrossCheckExpander.external_config (the parsed configuration files):
\* a.rs has file defaults (in two Defaults entries, to be merged) and entries
\* for the items T (with a nested entry for its method f), m and f; c.rs
\* has no entry.
ExternalConfig ==
    [f \in Files |->
        IF f = "a.rs"
        THEN Some(<<DefaultsEntry([NoParams EXCEPT !.enabled = Some(FALSE),
                                                   !.shasher = Some("DS0")]),
                    NamedEntry("T", [NoParams EXCEPT !.enabled = Some(TRUE),
                                                     !.ahasher = Some("XA"),
                                                     !.shasher = Some("XS"),
                                                     !.field_hasher = Some("FH"),
                                                     !.fields = (FieldInt(1) :> XDefault)
                                                                @@ (FieldStr("x") :> XFixed(7))],
                               Some(<<NamedEntry("f", [NoParams EXCEPT !.exit = Some(XDisabled)],
                                                 None)>>)),
                    NamedEntry("U", [NoParams EXCEPT !.fields = (FieldInt(0) :> XDefault)],
                               None),
                    NamedEntry("m", [NoParams EXCEPT !.ahasher = Some("MA")], None),
                    NamedEntry("f", [NoParams EXCEPT !.enabled = Some(TRUE),
                                                     !.entry = Some(XNone),
                                                     !.ret = Some(XDisabled),
                                                     !.args = (FieldStr("x") :> XDisabled),
                                                     !.exit_extra = <<"xexit">>],
                               None),
                    DefaultsEntry([NoParams EXCEPT !.shasher = Some("DS")])>>)
        ELSE None]

\* xcfg::Config::get_file_items
GetFileItems(file_name) == ExternalConfig[file_name]

\* xcfg::NamedItemList::new: the name map of an item list
NamedItemList(list) ==
    LET names == {list[i].name : i \in {j \in DOMAIN list : list[j].kind = "Item"}}
    IN [n \in names |->
           list[CHOOSE i \in DOMAIN list : list[i].kind = "Item" /\ list[i].name = n]]

\* xcfg::ItemConfig::nested_items
NestedItems(item_config) == item_config.nested

\* xcfg::DefaultsConfig::merge: def's present parameters overwrite file_cfg's
DefaultsMerge(file_cfg, def) ==
    [k \in DOMAIN file_cfg |->
        IF k \in {"args", "fields"} THEN Override(file_cfg[k], def[k])
        ELSE IF k \in {"entry_extra", "exit_extra"} THEN file_cfg[k] \o def[k]
        ELSE OptOr(def[k], file_cfg[k])]

\* The loop of build_file_defaults_config: every Defaults entry of the file,
\* in order, merged into one record
RECURSIVE MergeFileDefaults(_, _)
MergeFileDefaults(items, file_cfg) ==
    IF items = <<>> THEN file_cfg
    ELSE MergeFileDefaults(Tail(items),
            IF Head(items).kind = "Defaults"
            THEN DefaultsMerge(file_cfg, Head(items).params)
            ELSE file_cfg)

(* ------------------------------ ScopeConfig ----------------------------- *)

OptMap(o, F(_)) == IF o = <<>> THEN <<>> ELSE <<F(o[1])>>

\* ScopeConfig::new
ScopeConfigNew(file_name, ccc) ==
    [file_name |-> file_name,
     items |-> OptMap(GetFileItems(file_name), NamedItemList),
     check_config |-> ccc,
     field_idx |-> 0]

\* ScopeConfig::get_item_config
GetItemConfig(scope, item) ==
    IF scope.items # None /\ item \in DOMAIN scope.items[1]
    THEN Some(scope.items[1][item]) ELSE None

\* ScopeConfig::from_item
ScopeFromItem(scope, item_config, ccc) ==
    [file_name |-> scope.file_name,
     items |-> IF item_config # None /\ NestedItems(item_config[1]) # None
               THEN Some(NamedItemList(NestedItems(item_config[1])[1])) ELSE None,
     check_config |-> ccc,
     field_idx |-> 0]

\* ScopeConfig::same_file
SameFile(scope, file_name) == scope.file_name = file_name

(* -------------------------------- spans --------------------------------- *)

\* A Span: its file, its position, and the call site of the macro expansion
\* that produced it (sp.ctxt().outer().expn_info()), None for written code
RootSpan(f, p) == [file |-> f, pos |-> p, call_site |-> None]
ExpnSpan(f, p, cs) == [file |-> f, pos |-> p, call_site |-> Some(cs)]

SpanA == RootSpan("a.rs", 1)
SpanA1 == ExpnSpan("a.rs", 2, SpanA)
SpanA2 == ExpnSpan("c.rs", 3, SpanA1)
SpanC == RootSpan("c.rs", 1)
Spans == {SpanA, SpanA1, SpanA2, SpanC}

\* codemap().span_to_filename
SpanToFilename(sp) == sp.file

\* CrossCheckExpander::insert_macro_scope
InsertMacroScope(ms, sp, config) == Override(ms, sp :> config.inherited)

\* A faulty variant of FindSpanScope: the call site is looked up before the span
RECURSIVE FindSpanScopeCallSiteFirst(_, _)
FindSpanScopeCallSiteFirst(ms, sp) ==
    LET up == IF sp.call_site # None
              THEN FindSpanScopeCallSiteFirst(ms, sp.call_site[1]) ELSE None
    IN IF up # None THEN up
       ELSE IF sp \in DOMAIN ms THEN Some(ms[sp]) ELSE None

\* CrossCheckExpander::find_span_scope
RECURSIVE FindSpanScope(_, _)
FindSpanScope(ms, sp) ==
    IF sp \in DOMAIN ms THEN Some(ms[sp])
    ELSE IF sp.call_site # None THEN FindSpanScope(ms, sp.call_site[1])
    ELSE None

(* --------------------------- build_new_scope ---------------------------- *)

\* CrossCheckExpander::build_file_defaults_config
BuildFileDefaultsConfig(parent, file_name) ==
    LET file_items == GetFileItems(file_name)
    IN IF file_items = None THEN None
       ELSE Some(ParseXcfgConfig(NewFile(parent),
                                 DefaultsEntry(MergeFileDefaults(file_items[1], NoParams))))

\* The name build_new_scope looks the item up by: the type of an impl,
\* the identifier of anything else
ItemName(item) == IF item.kind = "Impl" THEN item.self_ty ELSE item.name

\* A faulty variant of Baseline: a new file never starts from the enclosing scope
BaselineNeverEnclosing(last_scope, item) ==
    IF SameFile(last_scope, item.file)
    THEN Inherit(last_scope.check_config)
    ELSE Inherit(UnwrapOr(BuildFileDefaultsConfig(last_scope.check_config, item.file),
                          NewFile(last_scope.check_config)))

\* build_new_scope, lines 151-163: the configuration the new scope starts from
Baseline(last_scope, item) ==
    LET same_file == SameFile(last_scope, item.file)
        file_defaults_config ==
            IF ~same_file
            THEN BuildFileDefaultsConfig(last_scope.check_config, item.file)
            ELSE None
    IN IF file_defaults_config # None
       THEN Inherit(file_defaults_config[1])
       ELSE Inherit(last_scope.check_config)

\* A faulty variant of ApplyDirectives: the external entry merged first, the inline
\* directive second
ApplyDirectivesInlineLast(new_config, attr, item_xcfg_config) ==
    LET c1 == IF item_xcfg_config # None
              THEN ParseXcfgConfig(new_config, item_xcfg_config[1]) ELSE new_config
    IN IF attr # None THEN ParseAttrConfig(c1, attr[1]) ELSE c1

\* build_new_scope, lines 165-190: the inline directive is merged, then the
\* external entry of the item
ApplyDirectives(new_config, attr, item_xcfg_config) ==
    LET c1 == IF attr # None THEN ParseAttrConfig(new_config, attr[1]) ELSE new_config
    IN IF item_xcfg_config # None
       THEN ParseXcfgConfig(c1, item_xcfg_config[1]) ELSE c1

\* A faulty variant of BuildNewScopePanics: no assertion on the kind of the item
BuildNewScopePanicsNever(last_scope, item) == FALSE

\* build_new_scope, line 199: the assertion that fails
BuildNewScopePanics(last_scope, item) ==
    ~SameFile(last_scope, item.file) /\ item.kind # "Mod"

\* CrossChecker::build_new_scope (when it does not panic)
BuildNewScope(last_scope, item) ==
    LET item_xcfg_config == GetItemConfig(last_scope, ItemName(item))
        new_config == ApplyDirectives(Baseline(last_scope, item), item.attr,
                                      item_xcfg_config)
    IN IF ~SameFile(last_scope, item.file)
       THEN ScopeConfigNew(item.file, new_config)
       ELSE ScopeFromItem(last_scope, item_xcfg_config, new_config)

(* ----------------------- the rewriting of one node ---------------------- *)

\* CrossChecker::new: the engine's default hashers
DefaultAHasher == "JodyHasher"
DefaultSHasher == "SimpleHasher"

\* CrossChecker::get_hasher_pair
GetHasherPair(config) ==
    <<UnwrapOr(config.inherited.ahasher, DefaultAHasher),
      UnwrapOr(config.inherited.shasher, DefaultSHasher)>>

\* xcheck_util::CrossCheckBuilder::build_xcheck / build_ident_xcheck: the check
\* statement of a directive, none when the directive disables the check
BuildXCheck(xcheck, tag, what, hashers) ==
    IF xcheck.tag \in {"None", "Disabled"} THEN <<>>
    ELSE <<[step |-> "xcheck", tag |-> tag, on |-> what, how |-> xcheck,
            hashers |-> hashers]>>

\* build_arg_xcheck panics (unimplemented!) on a pattern that is no identifier
BuildArgXCheckPanics(arg) == arg.pat # "Ident"

\* CrossChecker::build_arg_xcheck
BuildArgXCheck(config, arg) ==
    LET arg_idx == FieldStr(arg.name)
        arg_xcheck_cfg == IF arg_idx \in DOMAIN config.item.args
                          THEN config.item.args[arg_idx]
                          ELSE config.inherited.all_args
    IN BuildXCheck(arg_xcheck_cfg, "FUNCTION_ARG_TAG", arg.name, GetHasherPair(config))

\* The flat_map of build_function_xchecks over the inputs
RECURSIVE ArgXChecks(_, _)
ArgXChecks(config, inputs) ==
    IF inputs = <<>> THEN <<>>
    ELSE BuildArgXCheck(config, Head(inputs)) \o ArgXChecks(config, Tail(inputs))

\* CrossChecker::build_extra_xchecks
BuildExtraXChecks(extra_xchecks) ==
    [i \in DOMAIN extra_xchecks |-> [step |-> "raw_xcheck", expr |-> extra_xchecks[i]]]

\* build_function_xchecks panics when a check is built for a bad argument
BuildFunctionXChecksPanics(config, fn_decl) ==
    /\ config.inherited.enabled
    /\ \E i \in DOMAIN fn_decl.inputs : BuildArgXCheckPanics(fn_decl.inputs[i])

\* A faulty variant of CheckedBlock: the return value is checked before the exit
CheckedBlockReturnFirst(config, fn_ident, fn_decl, block) ==
    IF config.inherited.enabled
    THEN LET hashers == GetHasherPair(config)
         IN BuildXCheck(config.inherited.entry, "FUNCTION_ENTRY_TAG", fn_ident, hashers)
            \o ArgXChecks(config, fn_decl.inputs)
            \o BuildExtraXChecks(config.item.entry_extra)
            \o <<[step |-> "closure", block |-> block,
                  ty |-> UnwrapOr(fn_decl.output, "()")],
                 [step |-> "call"]>>
            \o BuildXCheck(config.inherited.ret, "FUNCTION_RETURN_TAG",
                           "__c2rust_fn_result", hashers)
            \o BuildXCheck(config.inherited.exit, "FUNCTION_EXIT_TAG", fn_ident, hashers)
            \o BuildExtraXChecks(config.item.exit_extra)
            \o <<[step |-> "result"]>>
    ELSE <<[step |-> "original", block |-> block]>>

\* build_function_xchecks, lines 288-337: the checked block
CheckedBlock(config, fn_ident, fn_decl, block) ==
    IF config.inherited.enabled
    THEN LET hashers == GetHasherPair(config)
             entry_xcheck == BuildXCheck(config.inherited.entry, "FUNCTION_ENTRY_TAG",
                                         fn_ident, hashers)
             exit_xcheck == BuildXCheck(config.inherited.exit, "FUNCTION_EXIT_TAG",
                                        fn_ident, hashers)
             arg_xchecks == ArgXChecks(config, fn_decl.inputs)
             result_xcheck == BuildXCheck(config.inherited.ret, "FUNCTION_RETURN_TAG",
                                          "__c2rust_fn_result", hashers)
             entry_extra_xchecks == BuildExtraXChecks(config.item.entry_extra)
             exit_extra_xchecks == BuildExtraXChecks(config.item.exit_extra)
             result_ty == UnwrapOr(fn_decl.output, "()")
         IN entry_xcheck \o arg_xchecks \o entry_extra_xchecks
            \o <<[step |-> "closure", block |-> block, ty |-> result_ty],
                 [step |-> "call"]>>
            \o exit_xcheck \o result_xcheck \o exit_extra_xchecks
            \o <<[step |-> "result"]>>
    ELSE <<[step |-> "original", block |-> block]>>

\* A faulty variant of BuildFunctionXChecks: no type aliases in a function that is
\* not checked
BuildFunctionXChecksBare(config, fn_ident, fn_decl, block) ==
    IF config.inherited.enabled
    THEN <<[step |-> "typedefs", ahasher |-> GetHasherPair(config)[1],
            shasher |-> GetHasherPair(config)[2]]>>
         \o CheckedBlock(config, fn_ident, fn_decl, block)
    ELSE CheckedBlock(config, fn_ident, fn_decl, block)

\* CrossChecker::build_function_xchecks: the type aliases, then the checked block
BuildFunctionXChecks(config, fn_ident, fn_decl, block) ==
    LET hashers == GetHasherPair(config)
    IN <<[step |-> "typedefs", ahasher |-> hashers[1], shasher |-> hashers[2]]>>
       \o CheckedBlock(config, fn_ident, fn_decl, block)

\* CrossChecker::build_hash_attr_args
BuildHashAttrArgs(config) ==
    (IF config.inherited.ahasher # None
     THEN <<<<"ahasher", config.inherited.ahasher[1]>>>> ELSE <<>>)
    \o (IF config.inherited.shasher # None
        THEN <<<<"shasher", config.inherited.shasher[1]>>>> ELSE <<>>)
    \o (IF config.item.field_hasher # None
        THEN <<<<"field_hasher", config.item.field_hasher[1]>>>> ELSE <<>>)
    \o (IF config.item.custom_hash # None
        THEN <<<<"custom_hash", config.item.custom_hash[1]>>>> ELSE <<>>)

\* CrossChecker::build_union_hash
BuildUnionHash(config, union_ident) ==
    [synth |-> "union_hash_impl", ident |-> union_ident,
     hash_body |-> IF config.item.custom_hash # None
                   THEN <<"custom", config.item.custom_hash[1]>>
                   ELSE <<"default">>]

\* format!("__c2rust_hash_{}", ident)
HashFnName(ident) == <<"__c2rust_hash_", ident>>

\* A faulty variant of BuildTypeCHashFunction: no check of the emitted functions
BuildTypeCHashFunctionNoCheck(emitted, config, ty_ident) ==
    [emitted |-> emitted \cup {HashFnName(ty_ident)},
     items |-> <<[synth |-> "c_hash_function", name |-> HashFnName(ty_ident),
                  ident |-> ty_ident, hashers |-> GetHasherPair(config)]>>]

\* CrossChecker::build_type_c_hash_function (with the c-hash-functions
\* feature): the new set of emitted functions and the function, if any
BuildTypeCHashFunction(emitted, config, ty_ident) ==
    LET hash_fn_name == HashFnName(ty_ident)
    IN IF hash_fn_name \in emitted
       THEN [emitted |-> emitted, items |-> <<>>]
       ELSE [emitted |-> emitted \cup {hash_fn_name},
             items |-> <<[synth |-> "c_hash_function", name |-> hash_fn_name,
                          ident |-> ty_ident, hashers |-> GetHasherPair(config)]>>]

IsAggregateKind(kind) == kind \in {"Struct", "Enum", "Union"}

\* A rewritten item: the item, the attributes appended to it and, for a
\* function, its new body
Rewritten(item, attrs, block) == [item |-> item, attrs |-> attrs, block |-> block]

\* A faulty variant of StructAttrs: the markers are attached whatever the enabled flag
StructAttrsAlways(config) ==
    <<[attr |-> "derive", args |-> <<"CrossCheckHash">>]>>
    \o (IF BuildHashAttrArgs(config) # <<>>
        THEN <<[attr |-> "cross_check_hash", args |-> BuildHashAttrArgs(config)]>>
        ELSE <<>>)

\* internal_fold_item_simple, lines 440-449: the attributes of a struct or enum
StructAttrs(config) ==
    IF config.inherited.enabled
    THEN <<[attr |-> "derive", args |-> <<"CrossCheckHash">>]>>
         \o (IF BuildHashAttrArgs(config) # <<>>
             THEN <<[attr |-> "cross_check_hash", args |-> BuildHashAttrArgs(config)]>>
             ELSE <<>>)
    ELSE <<>>

\* The c-hash-functions part of internal_fold_item_simple (lines 430-433,
\* 451-454): the request for the C ABI hash function of the type
CHashRequest(feature, emitted, config, item) ==
    IF feature /\ (item.kind = "Union" \/ config.inherited.enabled)
    THEN BuildTypeCHashFunction(emitted, config, item.name)
    ELSE [emitted |-> emitted, items |-> <<>>]

\* A faulty variant of InternalFoldItemSimple: a struct or enum whose hash function
\* is already emitted is left as it is
InternalFoldItemSimpleOnce(config, item, feature, emitted, ms) ==
    [panics |-> item.kind = "Fn" /\ BuildFunctionXChecksPanics(config, item.decl),
     item |-> CASE item.kind = "Fn" ->
                     Rewritten(item, <<>>,
                         Some(BuildFunctionXChecks(config, item.name, item.decl,
                                                   item.block)))
                [] item.kind \in {"Enum", "Struct"} ->
                     Rewritten(item,
                               IF HashFnName(item.name) \in emitted
                               THEN <<>> ELSE StructAttrs(config),
                               None)
                [] OTHER -> Rewritten(item, <<>>, None),
     pending |-> (IF item.kind = "Union"
                  THEN <<BuildUnionHash(config, item.name)>> ELSE <<>>)
                 \o (IF IsAggregateKind(item.kind)
                     THEN CHashRequest(feature, emitted, config, item).items
                     ELSE <<>>),
     emitted |-> IF IsAggregateKind(item.kind)
                 THEN CHashRequest(feature, emitted, config, item).emitted
                 ELSE emitted,
     macro_scopes |-> IF item.kind = "Mac"
                      THEN InsertMacroScope(ms, item.span, config) ELSE ms]

\* CrossChecker::internal_fold_item_simple, after the children are folded:
\* whether it panics, the rewritten item, the items it adds to pending_items,
\* and the expander's new sets
InternalFoldItemSimple(config, item, feature, emitted, ms) ==
    LET same == [panics |-> FALSE, item |-> Rewritten(item, <<>>, None),
                 pending |-> <<>>, emitted |-> emitted, macro_scopes |-> ms]
    IN CASE item.kind = "Fn" ->
              [same EXCEPT
                 !.panics = BuildFunctionXChecksPanics(config, item.decl),
                 !.item = Rewritten(item, <<>>,
                             Some(BuildFunctionXChecks(config, item.name, item.decl,
                                                       item.block)))]
         [] item.kind = "Union" ->
              LET c == CHashRequest(feature, emitted, config, item)
              IN [same EXCEPT
                    !.pending = <<BuildUnionHash(config, item.name)>> \o c.items,
                    !.emitted = c.emitted]
         [] item.kind \in {"Enum", "Struct"} ->
              LET c == CHashRequest(feature, emitted, config, item)
              IN [same EXCEPT
                    !.item = Rewritten(item, StructAttrs(config), None),
                    !.pending = c.items,
                    !.emitted = c.emitted]
         [] item.kind = "Mac" ->
              [same EXCEPT !.macro_scopes = InsertMacroScope(ms, item.span, config)]
         [] OTHER -> same

(* ------------------------------- inputs --------------------------------- *)

\* Two inline #[cross_check(...)] directives
InlineP1 ==
    [NoParams EXCEPT !.enabled = Some(FALSE), !.ahasher = Some("IA"),
                     !.shasher = Some("IS")]
InlineP2 ==
    [NoParams EXCEPT !.enabled = Some(TRUE), !.entry_extra = <<"ientry">>,
                     !.exit_extra = <<"iexit">>, !.custom_hash = Some("ch")]
Attrs == {None, Some(InlineP1), Some(InlineP2)}

IdentArg(n) == [pat |-> "Ident", name |-> n]
FnDecls ==
    {[inputs |-> <<IdentArg("x"), IdentArg("y")>>, output |-> Some("i32")],
     [inputs |-> <<[pat |-> "Tuple", name |-> ""]>>, output |-> None]}

ModItems == [kind : {"Mod"}, name : {"m"}, file : Files, attr : Attrs]
FnItems == [kind : {"Fn"}, name : {"f"}, file : Files, attr : Attrs,
            decl : FnDecls, block : {"B"}]
AggregateItems == [kind : {"Struct", "Enum", "Union"}, name : {"T", "U"},
                   file : Files, attr : {None, Some(InlineP2)}]
ImplItems == [kind : {"Impl"}, name : {""}, self_ty : {"T"}, file : Files,
              attr : {None}]
ForeignMods == [kind : {"ForeignMod"}, name : {""}, file : Files, attr : {None}]
MacItems == {[kind |-> "Mac", name |-> "", file |-> SpanToFilename(sp),
              attr |-> a, span |-> sp] :
                 sp \in {SpanA, SpanA1, SpanC}, a \in {None, Some(InlineP1)}}
Items == ModItems \cup FnItems \cup AggregateItems \cup ImplItems
         \cup ForeignMods \cup MacItems

(* ------------------------------- actions -------------------------------- *)

\* RefCell::new: a cell that is not borrowed
Unborrowed == [shared |-> 0, exclusive |-> FALSE]
NoBorrows == [macro_scopes |-> Unborrowed, c_hash_functions |-> Unborrowed]

Init ==
    /\ phase = "idle"
    /\ macro_scopes = <<>>
    /\ c_hash_functions = {}
    /\ scope_stack = <<>>
    /\ pending_items = <<>>
    /\ skip_first_scope = FALSE
    /\ frames = <<>>
    /\ ret = [op |-> "new"]
    /\ nodes = 0
    /\ c_hash_feature \in BOOLEAN
    /\ expand_macros = FALSE
    /\ borrow_flags = NoBorrows
    /\ calls = <<>>

\* A frame of the fold: the item, how it was entered, whether a scope was
\* pushed for it, the current body of an aggregate (whether one is being
\* folded, its style, the identities of its fields folded so far), the
\* number of bodies, statements or items folded in it, prev (when the handler that
\* returned just before the item was entered had folded the same item: what
\* it returned, kept to compare two renderings of one item), and (for the
\* frame of expand itself) what fold_item returned
Frame(item, via, scoped) ==
    [item |-> item, via |-> via, scoped |-> scoped, in_body |-> FALSE,
     style |-> "", body |-> <<>>, children |-> 0, prev |-> None, res |-> None]

\* A faulty variant of ExpandSkipFirstScope: a genuine top-level invocation builds
\* the first scope
ExpandSkipFirstScopeOnlyRecovered(span_scope) == span_scope # None

\* expand, lines 809 and 824: the skip_first_scope argument of CrossChecker::new
ExpandSkipFirstScope(span_scope) == TRUE

\* expand, lines 798-808: the top scope of a genuine top-level invocation
ExpandTopScope(sp, mi) ==
    LET top_config == ParseAttrConfig(NewScopeCheckConfig, mi)
        top_file_name == SpanToFilename(sp)
        file_config == BuildFileDefaultsConfig(top_config, top_file_name)
    IN ScopeConfigNew(top_file_name, UnwrapOr(file_config, top_config))

\* expand, lines 816-823: the scope of an invocation caused by an expansion
ExpandRecoveredScope(sp, mi, scope_config) ==
    LET config == ParseAttrConfig(FromItemConfig(scope_config), mi)
    IN ScopeConfigNew(SpanToFilename(sp), config)

\* A faulty variant of ExpandIgnores: every item is taken as a top-level one
ExpandIgnoresNever(i, span_scope) == FALSE

\* expand, lines 796-829: the arm `(_, None) => i`, taken by an item that is
\* no module when find_span_scope found no scope
ExpandIgnores(i, span_scope) == i.kind # "Mod" /\ span_scope = None

\* CrossCheckExpander::expand up to the call of fold_item, or all of it when
\* the item is returned as it is
Expand(i, sp, mi) ==
    /\ phase = "idle"
    /\ LET span_scope == FindSpanScope(macro_scopes, sp)
       IN IF ExpandIgnores(i, span_scope)
          THEN /\ nodes < MaxItems
               /\ ret' = [op |-> "expand", item |-> i,
                          engine |-> FALSE, value |-> <<Rewritten(i, <<>>, None)>>]
               /\ nodes' = nodes + 1
               /\ UNCHANGED <<phase, scope_stack, pending_items, skip_first_scope, frames>>
          ELSE /\ phase' = "fold"
               /\ nodes' = nodes
               /\ scope_stack' = <<IF span_scope = None
                                   THEN ExpandTopScope(sp, mi)
                                   ELSE ExpandRecoveredScope(sp, mi, span_scope[1])>>
               /\ pending_items' = <<>>
               /\ skip_first_scope' = ExpandSkipFirstScope(span_scope)
               /\ frames' = <<Frame(i, "expand", FALSE)>>
               /\ ret' = [op |-> "expand_call", item |-> i, sp |-> sp, mi |-> mi,
                          span_scope |-> span_scope]
    /\ UNCHANGED <<macro_scopes, c_hash_functions, c_hash_feature>>
    /\ UNCHANGED bvars

\* What the last handler returned, if it folded the same item the same way
\* and the item had nothing inside
PrevRendering(item, via) ==
    IF ret.op = via /\ ret.item = item /\ ret.children = 0
    THEN Some([config |-> ret.config, value |-> ret.value])
    ELSE None

\* fold_item_simple up to the call of internal_fold_item_simple, for an item
\* (through fold_item) or for the fake item of a method (in fold_impl_item)
FoldItemSimpleEnter(item, via) ==
    /\ nodes' = nodes + 1
    /\ IF skip_first_scope
       THEN /\ skip_first_scope' = FALSE
            /\ frames' = Append([frames EXCEPT ![Len(frames)].children = @ + 1],
                                [Frame(item, via, FALSE)
                                    EXCEPT !.prev = PrevRendering(item, via)])
            /\ ret' = [op |-> "enter", item |-> item]
            /\ UNCHANGED <<phase, scope_stack>>
       ELSE IF BuildNewScopePanics(Last(scope_stack), item)
       THEN /\ phase' = "aborted"
            /\ ret' = [op |-> "panic", in |-> "build_new_scope", item |-> item]
            /\ UNCHANGED <<scope_stack, skip_first_scope, frames>>
       ELSE /\ scope_stack' = Append(scope_stack, BuildNewScope(Last(scope_stack), item))
            /\ frames' = Append([frames EXCEPT ![Len(frames)].children = @ + 1],
                                [Frame(item, via, TRUE)
                                    EXCEPT !.prev = PrevRendering(item, via)])
            /\ ret' = [op |-> "enter", item |-> item]
            /\ UNCHANGED <<phase, skip_first_scope>>
    /\ UNCHANGED <<macro_scopes, c_hash_functions, pending_items, c_hash_feature>>
    /\ UNCHANGED bvars

\* fold_item (and noop_fold_item, fold_item_simple) on the item expand was
\* given or on an item of a module, up to the folding of its children
FoldItem(item) ==
    /\ phase = "fold"
    /\ nodes < MaxItems
    /\ LET top == Last(frames)
       IN IF top.via = "expand"
          THEN top.res = None /\ item = top.item
          ELSE top.item.kind = "Mod" /\ Len(frames) <= MaxDepth
    /\ FoldItemSimpleEnter(item, "fold_item")

\* fold_impl_item on a method, up to the folding of the method's body
FoldImplItem(method) ==
    /\ phase = "fold"
    /\ nodes < MaxItems
    /\ Last(frames).via # "expand"
    /\ Last(frames).item.kind = "Impl"
    /\ FoldItemSimpleEnter(method, "fold_impl_item")

(* ------------------------ fields of an aggregate ------------------------ *)

\* An attribute of a field: a #[cross_check(...)] directive with what its
\* argument list parses to (xcheck_util::parse_xcheck_arglist), or another one
CrossCheckAttr(xcheck) == [name |-> "cross_check", xcheck |-> xcheck]
DocAttr == [name |-> "doc", xcheck |-> None]

FieldAttrLists ==
    {<<DocAttr>>,
     <<DocAttr, CrossCheckAttr(Some(XDisabled))>>,
     <<CrossCheckAttr(Some(XNone))>>,
     <<CrossCheckAttr(Some(XFixed(3)))>>,
     <<CrossCheckAttr(Some(XAsType("u8"))), DocAttr>>,
     <<CrossCheckAttr(Some(XCustom("h")))>>,
     <<CrossCheckAttr(Some(XDefault))>>,
     <<CrossCheckAttr(Some(XDjb2("d")))>>,
     <<CrossCheckAttr(None)>>}

\* The fields of a body: named in a struct body, unnamed in a tuple body
StructFields(style) ==
    [ident : IF style = "Struct" THEN {Some("x")} ELSE {None},
     attrs : FieldAttrLists]

\* find_cross_check_attr
FindCrossCheckAttr(attrs) ==
    LET found == SelectSeq(attrs, LAMBDA a : a.name = "cross_check")
    IN IF found = <<>> THEN None ELSE Some(Head(found))

\* CrossChecker::parse_field_attr
ParseFieldAttr(attrs) ==
    LET xcheck_attr == FindCrossCheckAttr(attrs)
    IN IF xcheck_attr = None THEN None ELSE xcheck_attr[1].xcheck

\* A faulty variant of ResetFieldIdx: the counter runs on from the last body
ResetFieldIdxNot(scope) == scope

\* fold_variant_data: self.last_scope().field_idx.set(0)
ResetFieldIdx(scope) == [scope EXCEPT !.field_idx = 0]

\* A faulty variant of FieldName: the counter is read after it is advanced
FieldNameAfter(scope, sf) ==
    IF sf.ident # None THEN FieldStr(sf.ident[1]) ELSE FieldInt(scope.field_idx + 1)

\* fold_struct_field, lines 595-603: the identity of the field
FieldName(scope, sf) ==
    IF sf.ident # None THEN FieldStr(sf.ident[1]) ELSE FieldInt(scope.field_idx)

\* fold_struct_field, lines 597-602: the counter after the field
NextFieldIdx(scope, sf) ==
    IF sf.ident # None THEN scope ELSE [scope EXCEPT !.field_idx = scope.field_idx + 1]

\* A faulty variant of ResolveFieldXCheck: the inline directive before the external one
ResolveFieldXCheckInlineFirst(config, sf_name, attrs) ==
    OptOr(ParseFieldAttr(attrs),
          IF sf_name \in DOMAIN config.item.fields
          THEN Some(config.item.fields[sf_name]) ELSE None)

\* fold_struct_field, lines 605-607: the directive of the field
ResolveFieldXCheck(config, sf_name, attrs) ==
    LET sf_attr_xcheck == ParseFieldAttr(attrs)
        sf_xcfg_xcheck == IF sf_name \in DOMAIN config.item.fields
                          THEN Some(config.item.fields[sf_name]) ELSE None
    IN OptOr(sf_xcfg_xcheck, sf_attr_xcheck)

\* fold_struct_field panics (unimplemented!) on a Djb2 directive
HashAttrPanics(sf_xcheck) == sf_xcheck # None /\ sf_xcheck[1].tag = "Djb2"

\* A faulty variant of HashAttr: a marker for the Default directive too
HashAttrDefaultMarked(sf_xcheck) ==
    IF sf_xcheck = None THEN <<>>
    ELSE <<[name |-> "cross_check_hash", args |-> <<"none">>]>>

\* fold_struct_field, lines 608-631: the generated marker of the field, if any
HashAttr(sf_xcheck) ==
    IF sf_xcheck = None THEN <<>>
    ELSE LET x == sf_xcheck[1]
         IN CASE x.tag = "Default" -> <<>>
              [] x.tag = "AsType" ->
                   <<[name |-> "cross_check_hash", args |-> <<"as_type", x.ty>>]>>
              [] x.tag \in {"None", "Disabled"} ->
                   <<[name |-> "cross_check_hash", args |-> <<"none">>]>>
              [] x.tag = "Fixed" ->
                   <<[name |-> "cross_check_hash", args |-> <<"fixed_hash", ToString(x.id)>>]>>
              [] x.tag = "Custom" ->
                   <<[name |-> "cross_check_hash", args |-> <<"custom_hash", x.expr>>]>>
              [] OTHER -> <<>>

\* A faulty variant of FieldAttrs: the #[cross_check] directive is kept
FieldAttrsKept(attrs, hash_attr) == attrs \o hash_attr

\* fold_struct_field, lines 633-637: the attributes of the folded field
FieldAttrs(attrs, hash_attr) ==
    SelectSeq(attrs, LAMBDA a : a.name # "cross_check") \o hash_attr

IsAggregate(item) == IsAggregateKind(item.kind)

\* fold_variant_data: the body of a struct or union, or of one enum variant
FoldVariantData(style) ==
    /\ phase = "fold"
    /\ Last(frames).via # "expand"
    /\ IsAggregate(Last(frames).item)
    /\ IF Last(frames).item.kind = "Enum"
       THEN Last(frames).children < MaxVariants
       ELSE ~Last(frames).in_body
    /\ scope_stack' = [scope_stack EXCEPT ![Len(scope_stack)] = ResetFieldIdx(@)]
    /\ frames' = [frames EXCEPT ![Len(frames)].in_body = TRUE,
                                ![Len(frames)].style = style,
                                ![Len(frames)].body = <<>>,
                                ![Len(frames)].children = @ + 1]
    /\ ret' = [op |-> "fold_variant_data", style |-> style]
    /\ UNCHANGED <<phase, macro_scopes, c_hash_functions, pending_items,
                   skip_first_scope, nodes, c_hash_feature>>
    /\ UNCHANGED bvars

\* fold_struct_field
FoldStructField(sf) ==
    /\ phase = "fold"
    /\ Last(frames).via # "expand"
    /\ IsAggregate(Last(frames).item)
    /\ Last(frames).in_body
    /\ Len(Last(frames).body) < MaxFields
    /\ Last(frames).style # "Unit"
    /\ sf \in StructFields(Last(frames).style)
    /\ LET scope == Last(scope_stack)
           sf_name == FieldName(scope, sf)
           sf_xcheck == ResolveFieldXCheck(scope.check_config, sf_name, sf.attrs)
       IN /\ scope_stack' = [scope_stack EXCEPT ![Len(scope_stack)] = NextFieldIdx(@, sf)]
          /\ IF HashAttrPanics(sf_xcheck)
             THEN /\ phase' = "aborted"
                  /\ ret' = [op |-> "panic", in |-> "fold_struct_field", item |-> sf]
                  /\ UNCHANGED frames
             ELSE /\ phase' = phase
                  /\ frames' = [frames EXCEPT ![Len(frames)].body = Append(@, sf_name)]
                  /\ ret' = [op |-> "fold_struct_field", sf |-> sf, sf_name |-> sf_name,
                             config |-> scope.check_config,
                             attrs |-> FieldAttrs(sf.attrs, HashAttr(sf_xcheck))]
    /\ UNCHANGED <<macro_scopes, c_hash_functions, pending_items, skip_first_scope,
                   nodes, c_hash_feature>>
    /\ UNCHANGED bvars

(* ------------------- statements and foreign items ----------------------- *)

\* The statements of a function body: a local binding (with or without a
\* #[cross_check] directive, its pattern an identifier or not) or an
\* expression statement; exprs: the spans of the expressions inside it
Stmts ==
    [kind : {"Local"}, span : {SpanA1}, attr : {TRUE},
     pat : {"Ident", "Tuple"}, exprs : {<<>>}]
    \cup [kind : {"Local"}, span : {SpanA1}, attr : {FALSE}, pat : {"Ident"},
          exprs : {<<>>}]
    \cup [kind : {"Expr"}, span : {SpanA1}, attr : {FALSE}, pat : {"Ident"},
          exprs : {<<SpanA>>}]

\* fold_expr on the expressions of a statement, in order: each span recorded
RECURSIVE FoldExprs(_, _, _)
FoldExprs(ms, config, exprs) ==
    IF exprs = <<>> THEN ms
    ELSE FoldExprs(InsertMacroScope(ms, Head(exprs), config), config, Tail(exprs))

\* A faulty variant of NewStmt: the statement is added whatever the pattern is
NewStmtAnyPattern(s) ==
    IF s.kind = "Local" /\ s.attr
    THEN <<[kind |-> "cross_check_value", on |-> s.span]>>
    ELSE <<>>

\* fold_stmt, lines 559-581: the statement spliced after the folded one
NewStmt(s) ==
    IF s.kind = "Local" /\ s.attr /\ s.pat = "Ident"
    THEN <<[kind |-> "cross_check_value", on |-> s.span]>>
    ELSE <<>>

\* fold_stmt (without the expand-macros feature)
FoldStmt(s) ==
    /\ phase = "fold"
    /\ Last(frames).via # "expand"
    /\ Last(frames).item.kind = "Fn"
    /\ Last(frames).children < MaxStmts
    /\ LET config == Last(scope_stack).check_config
       IN /\ macro_scopes' = FoldExprs(InsertMacroScope(macro_scopes, s.span, config),
                                       config, s.exprs)
          /\ ret' = [op |-> "fold_stmt", stmt |-> s, value |-> <<s>> \o NewStmt(s)]
    /\ frames' = [frames EXCEPT ![Len(frames)].children = @ + 1]
    /\ UNCHANGED <<phase, c_hash_functions, scope_stack, pending_items,
                   skip_first_scope, nodes, c_hash_feature>>
    /\ UNCHANGED bvars

ForeignItems == {[kind |-> "Ty", name |-> "T"], [kind |-> "Fn", name |-> "f"]}

\* fold_foreign_item
FoldForeignItem(ni) ==
    /\ phase = "fold"
    /\ Last(frames).via # "expand"
    /\ Last(frames).item.kind = "ForeignMod"
    /\ Last(frames).children < MaxStmts
    /\ pending_items' =
          IF ni.kind = "Ty"
          THEN Append(pending_items,
                      [synth |-> "foreign_hash_impl", ident |-> ni.name,
                       calls |-> HashFnName(ni.name)])
          ELSE pending_items
    /\ ret' = [op |-> "fold_foreign_item", ni |-> ni]
    /\ frames' = [frames EXCEPT ![Len(frames)].children = @ + 1]
    /\ UNCHANGED <<phase, macro_scopes, c_hash_functions, scope_stack,
                   skip_first_scope, nodes, c_hash_feature>>
    /\ UNCHANGED bvars

(* --------------------------- leaving an item ---------------------------- *)

\* A faulty variant of DrainPending: the pending items are left in the queue
DrainPendingNot(item, pending) == [res |-> <<item>>, pending |-> pending]

\* fold_item, lines 654-657: the pending items spliced after the item
DrainPending(item, pending) == [res |-> <<item>> \o pending, pending |-> <<>>]

\* A faulty variant of PopScope: the scope of the item is left on the stack
PopScopeNot(stack, scoped) == stack

\* fold_item_simple, lines 493-495: the scope pushed for the item is popped;
\* the item that consumed skip_first_scope pushed none
PopScope(stack, scoped) == IF scoped THEN Front(stack) ELSE stack

\* The rest of fold_item_simple (internal_fold_item_simple once the children
\* are folded, then the pop of the scope) and, for an item, of fold_item; for
\* a method, of fold_impl_item
LeaveItem ==
    /\ phase = "fold"
    /\ Last(frames).via # "expand"
    /\ Last(frames).item.kind \in {"Struct", "Union"} => Last(frames).in_body
    /\ LET top == Last(frames)
           config == Last(scope_stack).check_config
           r == InternalFoldItemSimple(config, top.item, c_hash_feature,
                                       c_hash_functions, macro_scopes)
           out == IF top.via = "fold_item"
                  THEN DrainPending(r.item, pending_items \o r.pending)
                  ELSE [res |-> <<r.item>>, pending |-> pending_items \o r.pending]
       IN IF r.panics
          THEN /\ phase' = "aborted"
               /\ ret' = [op |-> "panic", in |-> "build_arg_xcheck", item |-> top.item]
               /\ UNCHANGED <<macro_scopes, c_hash_functions, scope_stack,
                              pending_items, frames>>
          ELSE /\ phase' = phase
               /\ macro_scopes' = r.macro_scopes
               /\ c_hash_functions' = r.emitted
               /\ scope_stack' = PopScope(scope_stack, top.scoped)
               /\ pending_items' = out.pending
               /\ frames' = IF Len(frames) = 2
                            THEN <<[frames[1] EXCEPT !.res = Some(out.res)]>>
                            ELSE Front(frames)
               /\ ret' = [op |-> IF top.via = "fold_item" THEN "fold_item"
                                 ELSE "fold_impl_item",
                          item |-> top.item, config |-> config,
                          emitted |-> c_hash_functions, prev |-> top.prev,
                          children |-> top.children,
                          value |-> out.res]
    /\ UNCHANGED <<skip_first_scope, nodes, c_hash_feature>>
    /\ UNCHANGED bvars

\* A faulty variant of ExpectOnePanics: any number of items is let through
ExpectOnePanicsNever(res) == FALSE

\* expand, lines 809-811 and 824-826: expect_one("too many items returned")
\* panics unless fold_item returned exactly one item
ExpectOnePanics(res) == Len(res) # 1

\* The end of expand: expect_one on what fold_item returned
ExpandReturn ==
    /\ phase = "fold"
    /\ Last(frames).via = "expand"
    /\ Last(frames).res # None
    /\ LET res == Last(frames).res[1]
       IN IF ExpectOnePanics(res)
          THEN /\ phase' = "aborted"
               /\ ret' = [op |-> "panic", in |-> "expect_one", item |-> Last(frames).item]
               /\ UNCHANGED <<scope_stack, pending_items, frames>>
          ELSE /\ phase' = "idle"
               /\ ret' = [op |-> "expand", item |-> Last(frames).item,
                          engine |-> TRUE, value |-> res]
               /\ scope_stack' = <<>>
               /\ pending_items' = <<>>
               /\ frames' = <<>>
    /\ UNCHANGED <<macro_scopes, c_hash_functions, skip_first_scope, nodes,
                   c_hash_feature>>
    /\ UNCHANGED bvars

\* The items expand is called on: the directive that caused the call is
\* handed over in mi and is not among the item's attributes, and the item
\* is in the file of the directive
RootItems(items, sp) == {i \in items : i.attr = None /\ i.file = SpanToFilename(sp)}

\* Compilations of modules, functions, impls, foreign modules, macro
\* invocations and enums without variants or directives
EngineItems == {i \in Items : /\ i.kind \notin {"Struct", "Union"}
                               /\ i.kind = "Enum" => i.attr = None}

Next ==
    \/ \E sp \in Spans, mi \in {NoParams, InlineP2} :
          \E i \in RootItems(EngineItems, sp) : Expand(i, sp, mi)
    \/ \E item \in EngineItems : FoldItem(item)
    \/ \E method \in FnItems : FoldImplItem(method)
    \/ \E s \in Stmts : FoldStmt(s)
    \/ \E ni \in ForeignItems : FoldForeignItem(ni)
    \/ LeaveItem
    \/ ExpandReturn

Spec == Init /\ [][Next]_vars

\* Compilations of modules of structs, enums and unions with their fields,
\* and of foreign modules
AggregateSpans == {SpanA, SpanC}

NextAggregates ==
    \/ \E sp \in AggregateSpans, mi \in {NoParams} :
          \E i \in RootItems(ModItems, sp) : Expand(i, sp, mi)
    \/ \E item \in ModItems \cup AggregateItems \cup ForeignMods : FoldItem(item)
    \/ \E ni \in ForeignItems : FoldForeignItem(ni)
    \/ \E style \in {"Struct", "Tuple", "Unit"} : FoldVariantData(style)
    \/ \E sf \in StructFields("Struct") \cup StructFields("Tuple") : FoldStructField(sf)
    \/ LeaveItem
    \/ ExpandReturn

SpecAggregates == Init /\ [][NextAggregates]_vars

(* ------------------ the same calls, borrow by borrow -------------------- *)

\* RefCell::borrow (BorrowRef::new): refused while the cell is exclusively
\* borrowed, else one more shared borrow
BorrowPanics(flag) == flag.exclusive
Borrow(flag) == [flag EXCEPT !.shared = @ + 1]

\* RefCell::borrow_mut (BorrowRefMut::new): refused while the cell is
\* borrowed in any way, else the exclusive borrow
BorrowMutPanics(flag) == flag.exclusive \/ flag.shared > 0
BorrowMut(flag) == [flag EXCEPT !.exclusive = TRUE]

\* A faulty variant of DropRef: the shared borrow outlives find_span_scope
DropRefNot(flag) == flag

\* find_span_scope, line 761: the Ref macro_scopes goes out of scope
DropRef(flag) == [flag EXCEPT !.shared = @ - 1]

\* insert_macro_scope, line 751, and build_type_c_hash_function, line 393:
\* the temporary RefMut is dropped at the end of the statement
DropRefMut(flag) == [flag EXCEPT !.exclusive = FALSE]

\* The calls in progress: expand (looking up the span, then matching on
\* what was found), find_span_scope (holding its Ref), the engine (a
\* CrossChecker folding its root item), insert_macro_scope and
\* build_type_c_hash_function (holding their RefMut)
ExpandCall(i, sp, mi) ==
    [fn |-> "expand", item |-> i, sp |-> sp, mi |-> mi, pc |-> "find",
     span_scope |-> None]
FindSpanScopeCall(sp) ==
    [fn |-> "find_span_scope", sp |-> sp, pc |-> "get", span_scope |-> None]
EngineCall(scope) == [fn |-> "engine", config |-> scope.check_config]
InsertMacroScopeCall(sp, config) ==
    [fn |-> "insert_macro_scope", sp |-> sp, config |-> config]
BuildTypeCHashFunctionCall(ty_ident) ==
    [fn |-> "build_type_c_hash_function", ty_ident |-> ty_ident]

\* The spans the engine records and the type names it hashes in these runs
RecordedSpans == {SpanA, SpanA1}
HashedTypes == {"T"}

\* What the steps at the grain of the borrows leave alone: the state of
\* the CrossChecker, folded whole in the other steps, and the features
fvars == <<scope_stack, pending_items, skip_first_scope, frames, c_hash_feature,
           expand_macros>>

\* the pass panics in a RefCell
BorrowError(what, cell) ==
    /\ phase' = "aborted"
    /\ ret' = [op |-> "panic", in |-> what, cell |-> cell]
    /\ UNCHANGED <<macro_scopes, c_hash_functions, borrow_flags, calls>>

\* the phase a stack of calls stands for
PhaseOf(stack) == IF stack = <<>> THEN "idle" ELSE "fold"

\* expand is called: by the compiler on an attribute of the crate (no call
\* in progress), or, with the expand-macros feature, by the compiler's
\* expander that fold_item, fold_stmt or fold_expr has called on a macro
ExpandBegin(i, sp, mi) ==
    /\ phase # "aborted"
    /\ nodes < MaxItems
    /\ \/ calls = <<>>
       \/ /\ expand_macros
          /\ calls # <<>>
          /\ Last(calls).fn = "engine"
    /\ calls' = Append(calls, ExpandCall(i, sp, mi))
    /\ nodes' = nodes + 1
    /\ phase' = "fold"
    /\ ret' = [op |-> "expand_begin"]
    /\ UNCHANGED <<macro_scopes, c_hash_functions, borrow_flags>>
    /\ UNCHANGED fvars

\* find_span_scope is called, by expand or by itself on the call site of
\* the span, and borrows macro_scopes
FindSpanScopeBorrow ==
    /\ phase = "fold"
    /\ calls # <<>>
    /\ \/ Last(calls).fn = "expand" /\ Last(calls).pc = "find"
       \/ Last(calls).fn = "find_span_scope" /\ Last(calls).pc = "call_site"
    /\ LET sp == IF Last(calls).fn = "expand" THEN Last(calls).sp
                 ELSE Last(calls).sp.call_site[1]
       IN IF BorrowPanics(borrow_flags.macro_scopes)
          THEN /\ BorrowError("borrow", "macro_scopes")
               /\ UNCHANGED nodes
          ELSE /\ borrow_flags' = [borrow_flags EXCEPT !.macro_scopes = Borrow(@)]
               /\ calls' = Append(calls, FindSpanScopeCall(sp))
               /\ ret' = [op |-> "borrow"]
               /\ UNCHANGED <<phase, macro_scopes, c_hash_functions, nodes>>
    /\ UNCHANGED fvars

\* find_span_scope, lines 756-760: the span is looked up; when it is not
\* recorded and comes from an expansion, the call site is looked up next
FindSpanScopeGet ==
    /\ phase = "fold"
    /\ calls # <<>>
    /\ Last(calls).fn = "find_span_scope" /\ Last(calls).pc = "get"
    /\ LET sp == Last(calls).sp
       IN calls' = [calls EXCEPT ![Len(calls)] =
                      IF sp \in DOMAIN macro_scopes
                      THEN [@ EXCEPT !.pc = "return",
                                     !.span_scope = Some(macro_scopes[sp])]
                      ELSE IF sp.call_site # None
                      THEN [@ EXCEPT !.pc = "call_site"]
                      ELSE [@ EXCEPT !.pc = "return"]]
    /\ ret' = [op |-> "get"]
    /\ UNCHANGED <<phase, macro_scopes, c_hash_functions, borrow_flags, nodes>>
    /\ UNCHANGED fvars

\* find_span_scope returns what it found to its caller and drops its Ref
FindSpanScopeReturn ==
    /\ phase = "fold"
    /\ Len(calls) >= 2
    /\ Last(calls).fn = "find_span_scope" /\ Last(calls).pc = "return"
    /\ borrow_flags' = [borrow_flags EXCEPT !.macro_scopes = DropRef(@)]
    /\ LET caller == calls[Len(calls) - 1]
       IN calls' = [Front(calls) EXCEPT ![Len(calls) - 1] =
                       [caller EXCEPT
                          !.span_scope = Last(calls).span_scope,
                          !.pc = IF caller.fn = "expand" THEN "found" ELSE "return"]]
    /\ ret' = [op |-> "find_span_scope"]
    /\ UNCHANGED <<phase, macro_scopes, c_hash_functions, nodes>>
    /\ UNCHANGED fvars

\* expand, lines 796-829: the item is returned as it is, or a CrossChecker
\* is built for it and runs
ExpandMatch ==
    /\ phase = "fold"
    /\ calls # <<>>
    /\ Last(calls).fn = "expand" /\ Last(calls).pc = "found"
    /\ LET c == Last(calls)
       IN calls' = IF ExpandIgnores(c.item, c.span_scope)
                   THEN Front(calls)
                   ELSE [calls EXCEPT ![Len(calls)] =
                           EngineCall(IF c.span_scope = None
                                      THEN ExpandTopScope(c.sp, c.mi)
                                      ELSE ExpandRecoveredScope(c.sp, c.mi,
                                                                c.span_scope[1]))]
    /\ phase' = PhaseOf(calls')
    /\ ret' = [op |-> "match"]
    /\ UNCHANGED <<macro_scopes, c_hash_functions, borrow_flags, nodes>>
    /\ UNCHANGED fvars

\* the engine calls insert_macro_scope (for a macro item, a statement or an
\* expression), which borrows macro_scopes exclusively
InsertMacroScopeBorrowMut(sp) ==
    /\ phase = "fold"
    /\ calls # <<>>
    /\ Last(calls).fn = "engine"
    /\ IF BorrowMutPanics(borrow_flags.macro_scopes)
       THEN BorrowError("borrow_mut", "macro_scopes")
       ELSE /\ borrow_flags' = [borrow_flags EXCEPT !.macro_scopes = BorrowMut(@)]
            /\ calls' = Append(calls, InsertMacroScopeCall(sp, Last(calls).config))
            /\ ret' = [op |-> "borrow_mut"]
            /\ UNCHANGED <<phase, macro_scopes, c_hash_functions>>
    /\ UNCHANGED nodes
    /\ UNCHANGED fvars

\* insert_macro_scope inserts, drops its RefMut and returns
InsertMacroScopeInsert ==
    /\ phase = "fold"
    /\ calls # <<>>
    /\ Last(calls).fn = "insert_macro_scope"
    /\ macro_scopes' = InsertMacroScope(macro_scopes, Last(calls).sp, Last(calls).config)
    /\ borrow_flags' = [borrow_flags EXCEPT !.macro_scopes = DropRefMut(@)]
    /\ calls' = Front(calls)
    /\ ret' = [op |-> "insert_macro_scope"]
    /\ UNCHANGED <<phase, c_hash_functions, nodes>>
    /\ UNCHANGED fvars

\* the engine calls build_type_c_hash_function (for a union or an enabled
\* struct or enum), which borrows c_hash_functions exclusively
BuildTypeCHashFunctionBorrowMut(ty_ident) ==
    /\ phase = "fold"
    /\ c_hash_feature
    /\ calls # <<>>
    /\ Last(calls).fn = "engine"
    /\ IF BorrowMutPanics(borrow_flags.c_hash_functions)
       THEN BorrowError("borrow_mut", "c_hash_functions")
       ELSE /\ borrow_flags' = [borrow_flags EXCEPT !.c_hash_functions = BorrowMut(@)]
            /\ calls' = Append(calls, BuildTypeCHashFunctionCall(ty_ident))
            /\ ret' = [op |-> "borrow_mut"]
            /\ UNCHANGED <<phase, macro_scopes, c_hash_functions>>
    /\ UNCHANGED nodes
    /\ UNCHANGED fvars

\* build_type_c_hash_function inserts the name, drops its RefMut and goes on
BuildTypeCHashFunctionInsert ==
    /\ phase = "fold"
    /\ calls # <<>>
    /\ Last(calls).fn = "build_type_c_hash_function"
    /\ c_hash_functions' = c_hash_functions \cup {HashFnName(Last(calls).ty_ident)}
    /\ borrow_flags' = [borrow_flags EXCEPT !.c_hash_functions = DropRefMut(@)]
    /\ calls' = Front(calls)
    /\ ret' = [op |-> "build_type_c_hash_function"]
    /\ UNCHANGED <<phase, macro_scopes, nodes>>
    /\ UNCHANGED fvars

\* the engine has folded its root item: expand returns
EngineReturn ==
    /\ phase = "fold"
    /\ calls # <<>>
    /\ Last(calls).fn = "engine"
    /\ calls' = Front(calls)
    /\ phase' = PhaseOf(calls')
    /\ ret' = [op |-> "expand_return"]
    /\ UNCHANGED <<macro_scopes, c_hash_functions, borrow_flags, nodes>>
    /\ UNCHANGED fvars

\* Compilations with either setting of the expand-macros feature
InitBorrows ==
    /\ phase = "idle"
    /\ macro_scopes = <<>>
    /\ c_hash_functions = {}
    /\ scope_stack = <<>>
    /\ pending_items = <<>>
    /\ skip_first_scope = FALSE
    /\ frames = <<>>
    /\ ret = [op |-> "new"]
    /\ nodes = 0
    /\ c_hash_feature \in BOOLEAN
    /\ expand_macros \in BOOLEAN
    /\ borrow_flags = NoBorrows
    /\ calls = <<>>

BorrowItems == {i \in ModItems \cup MacItems : i.attr = None}

NextBorrows ==
    \/ \E sp \in Spans, mi \in {NoParams} :
          \E i \in RootItems(BorrowItems, sp) : ExpandBegin(i, sp, mi)
    \/ FindSpanScopeBorrow
    \/ FindSpanScopeGet
    \/ FindSpanScopeReturn
    \/ ExpandMatch
    \/ \E sp \in RecordedSpans : InsertMacroScopeBorrowMut(sp)
    \/ InsertMacroScopeInsert
    \/ \E ty_ident \in HashedTypes : BuildTypeCHashFunctionBorrowMut(ty_ident)
    \/ BuildTypeCHashFunctionInsert
    \/ EngineReturn

SpecBorrows == InitBorrows /\ [][NextBorrows]_vars

(* ------------------------------ properties ----------------------------- *)

\* The scope of the item of frame k, and the scope it was built under
ScopeIndex(k) == 1 + Cardinality({j \in 2..k : frames[j].scoped})
FrameScope(k) == scope_stack[ScopeIndex(k)]
ParentScope(k) == scope_stack[ScopeIndex(k) - 1]

\* The value a set parameter gives an inherited field: the hashers are
\* optional in the configuration too
ParamValue(p, f) == IF f \in {"ahasher", "shasher"} THEN p[f] ELSE p[f][1]

\* The value of inherited field f after the directives of an item: the
\* external entry's if it sets f, else the inline directive's if it sets f,
\* else the value the scope started from
Effective(f, ext, attr, base) ==
    IF ext # None /\ ext[1].params[f] # None THEN ParamValue(ext[1].params, f)
    ELSE IF attr # None /\ attr[1][f] # None THEN ParamValue(attr[1], f)
    ELSE base[f]

\* The frames whose scope build_new_scope built inside one file, and those
\* whose item begins a new file
SameFileFrames ==
    {k \in 2..Len(frames) :
        frames[k].scoped /\ SameFile(ParentScope(k), frames[k].item.file)}
NewFileFrames ==
    {k \in 2..Len(frames) :
        frames[k].scoped /\ ~SameFile(ParentScope(k), frames[k].item.file)}

\* C1: every scope build_new_scope builds inside one file has, in each of
\* enabled, ahasher and shasher, the parent scope's value unless the item's
\* inline directive or its external entry sets the field, and the external
\* entry's value when both set it.
C1_InheritedFields ==
    \A k \in SameFileFrames :
        LET item == frames[k].item
            ext == GetItemConfig(ParentScope(k), ItemName(item))
        IN \A f \in {"enabled", "ahasher", "shasher"} :
              FrameScope(k).check_config.inherited[f]
                 = Effective(f, ext, item.attr, ParentScope(k).check_config.inherited)

\* An item whose inline directive and external entry set the aggregate
\* hasher to different values, and whose scope has the external one
C1_Witness ==
    \E k \in SameFileFrames :
        LET item == frames[k].item
            ext == GetItemConfig(ParentScope(k), ItemName(item))
        IN /\ item.attr # None /\ item.attr[1].ahasher # None
           /\ ext # None /\ ext[1].params.ahasher # None
           /\ ext[1].params.ahasher # item.attr[1].ahasher
           /\ FrameScope(k).check_config.inherited.ahasher = ext[1].params.ahasher
           /\ FrameScope(k).check_config.inherited.shasher = item.attr[1].shasher

FileDefaults(file_name) ==
    IF GetFileItems(file_name) = None THEN NoParams
    ELSE MergeFileDefaults(GetFileItems(file_name)[1], NoParams)

\* The value of inherited field f in the scope of new-file frame k when the
\* scope starts from base
NewFileEffective(k, f, base) ==
    LET item == frames[k].item
        ext == GetItemConfig(ParentScope(k), ItemName(item))
    IN Effective(f, ext, item.attr,
                 [base EXCEPT ![f] = IF FileDefaults(item.file)[f] # None
                                     THEN ParamValue(FileDefaults(item.file), f)
                                     ELSE base[f]])

\* C10 as stated: no inherited field of the scope of a new-file item takes
\* its value from the enclosing scope: each one is set by the file's
\* defaults, by the item's directives, or is the default.
C10_NeverFromEnclosing ==
    \A k \in NewFileFrames : \A f \in InheritedKeys :
        FrameScope(k).check_config.inherited[f] = NewFileEffective(k, f, DefaultInherited)

\* C10: the scope of a new-file item starts from the new file's
\* configuration (new_file with the file's Defaults merged) only when the
\* external configuration has an entry for the file; when it has none the
\* scope starts from the enclosing scope's inherited fields, as inside one file.
C10_Baseline ==
    \A k \in NewFileFrames : \A f \in InheritedKeys :
        FrameScope(k).check_config.inherited[f]
           = NewFileEffective(k, f,
                IF GetFileItems(frames[k].item.file) = None
                THEN ParentScope(k).check_config.inherited
                ELSE NewFile(ParentScope(k).check_config).inherited)

\* A module in a file without external entry, under a scope whose enabled
\* flag and simple hasher are not the defaults: its scope has both
C10_Witness ==
    \E k \in NewFileFrames :
        /\ GetFileItems(frames[k].item.file) = None
        /\ frames[k].item.attr = None
        /\ ~ParentScope(k).check_config.inherited.enabled
        /\ ParentScope(k).check_config.inherited.shasher # None
        /\ FrameScope(k).check_config.inherited.enabled
              = ParentScope(k).check_config.inherited.enabled
        /\ FrameScope(k).check_config.inherited.shasher
              = ParentScope(k).check_config.inherited.shasher

\* The positional identities among the field identities of a body
Unnamed(body) == SelectSeq(body, LAMBDA n : n[1] = "Int")

\* C2: in every aggregate body being folded, the identities given to its
\* unnamed fields are 0, 1, ..., N-1 in declaration order, and the counter of
\* the scope counts the unnamed fields of this body only: it is 0 when the
\* body starts, whatever bodies and aggregates were folded before.
C2_PositionalIndices ==
    phase = "fold" =>
       \A k \in 2..Len(frames) :
           frames[k].in_body =>
              /\ \A i \in 1..Len(Unnamed(frames[k].body)) :
                     Unnamed(frames[k].body)[i] = FieldInt(i - 1)
              /\ FrameScope(k).field_idx = Len(Unnamed(frames[k].body))

\* The second variant body of an enum, folded after another aggregate, with
\* two unnamed fields
C2_Witness ==
    /\ phase = "fold"
    /\ nodes >= 3
    /\ Last(frames).item.kind = "Enum"
    /\ Last(frames).children = 2
    /\ Last(frames).style = "Tuple"
    /\ Last(frames).body = <<FieldInt(0), FieldInt(1)>>
    /\ Last(scope_stack).field_idx = 2

\* The rewritten body of the function the last handler folded
FnBody == ret.value[1].block[1]
IsFnRet == ret.op \in {"fold_item", "fold_impl_item"} /\ ret.item.kind = "Fn"

\* Whether a directive asks for a check
Checks(xcheck) == xcheck.tag \notin {"None", "Disabled"}

\* The place of step i of a body in the order of C3
StepRank(body, i) ==
    LET st == body[i]
        closure == CHOOSE j \in DOMAIN body : body[j].step = "closure"
    IN CASE st.step = "typedefs" -> 0
         [] st.step = "xcheck" /\ st.tag = "FUNCTION_ENTRY_TAG" -> 1
         [] st.step = "xcheck" /\ st.tag = "FUNCTION_ARG_TAG" -> 2
         [] st.step = "raw_xcheck" /\ i < closure -> 3
         [] st.step = "closure" -> 4
         [] st.step = "call" -> 5
         [] st.step = "xcheck" /\ st.tag = "FUNCTION_EXIT_TAG" -> 6
         [] st.step = "xcheck" /\ st.tag = "FUNCTION_RETURN_TAG" -> 7
         [] st.step = "raw_xcheck" /\ i > closure -> 8
         [] st.step = "result" -> 9
         [] OTHER -> 10

\* The steps of a body with a given rank
StepsOfRank(body, r) == {i \in DOMAIN body : StepRank(body, i) = r}

\* C3: the body generated for a function or method whose scope is enabled
\* runs, in this order: the entry check, the argument checks in declaration
\* order, the extra entry expressions, the original body (once, its result
\* captured), the exit check, the check of the result, the extra exit
\* expressions, and then yields the captured result.
C3_StepOrder ==
    (IsFnRet /\ ret.config.inherited.enabled) =>
       LET body == FnBody
           inputs == ret.item.decl.inputs
           pos(n) == CHOOSE j \in DOMAIN inputs : inputs[j].name = n
           raw(r) == SelectSeq([i \in DOMAIN body |->
                                   IF StepRank(body, i) = r THEN body[i].expr ELSE ""],
                               LAMBDA e : e # "")
       IN /\ \A i \in DOMAIN body : StepRank(body, i) < 10
          /\ \A i, j \in DOMAIN body : i < j => StepRank(body, i) <= StepRank(body, j)
          /\ \A r \in {4, 5, 9} : Cardinality(StepsOfRank(body, r)) = 1
          /\ Cardinality(StepsOfRank(body, 1)) = IF Checks(ret.config.inherited.entry) THEN 1 ELSE 0
          /\ Cardinality(StepsOfRank(body, 6)) = IF Checks(ret.config.inherited.exit) THEN 1 ELSE 0
          /\ Cardinality(StepsOfRank(body, 7)) = IF Checks(ret.config.inherited.ret) THEN 1 ELSE 0
          /\ \A i, j \in StepsOfRank(body, 2) : i < j => pos(body[i].on) < pos(body[j].on)
          /\ raw(3) = ret.config.item.entry_extra
          /\ raw(8) = ret.config.item.exit_extra
          /\ \A i \in StepsOfRank(body, 4) : body[i].block = ret.item.block
          /\ \A i \in StepsOfRank(body, 7) : body[i].on = "__c2rust_fn_result"

\* An enabled function with every step: both arguments checked, extra
\* expressions on entry and on exit
C3_Witness ==
    /\ IsFnRet /\ ret.config.inherited.enabled
    /\ \A r \in {1, 3, 4, 5, 6, 7, 8, 9} : Cardinality(StepsOfRank(FnBody, r)) = 1
    /\ Cardinality(StepsOfRank(FnBody, 2)) = 2

\* C4: every rewritten function body starts with the two hasher type
\* aliases, the scope's hashers or the engine's defaults; when the scope is
\* not enabled the rest of the body is the original body and nothing else.
C4_Typedefs ==
    IsFnRet =>
       /\ FnBody[1] = [step |-> "typedefs",
                       ahasher |-> IF ret.config.inherited.ahasher = None
                                   THEN DefaultAHasher
                                   ELSE ret.config.inherited.ahasher[1],
                       shasher |-> IF ret.config.inherited.shasher = None
                                   THEN DefaultSHasher
                                   ELSE ret.config.inherited.shasher[1]]
       /\ ~ret.config.inherited.enabled =>
             Tail(FnBody) = <<[step |-> "original", block |-> ret.item.block]>>

\* A function that is not enabled, one hasher set and one left to the default
C4_Witness ==
    /\ IsFnRet /\ ~ret.config.inherited.enabled
    /\ ret.config.inherited.ahasher = None
    /\ ret.config.inherited.shasher # None
    /\ Len(FnBody) = 2
    /\ FnBody[1].ahasher = DefaultAHasher
    /\ FnBody[1].shasher = ret.config.inherited.shasher[1]

\* The span and its macro-expansion call sites, the nearest first
RECURSIVE CallSiteChain(_)
CallSiteChain(sp) ==
    IF sp.call_site = None THEN <<sp>> ELSE <<sp>> \o CallSiteChain(sp.call_site[1])

\* C5: for any contents of the map and any span, find_span_scope returns
\* the entry of the first location, among the span and then its call sites
\* in order, that has one, and absence when none of them has an entry.
C5_NearestEntry ==
    \A sp \in Spans :
        LET chain == CallSiteChain(sp)
            hits == {i \in DOMAIN chain : chain[i] \in DOMAIN macro_scopes}
            found == FindSpanScope(macro_scopes, sp)
        IN IF hits = {} THEN found = None
           ELSE \E i \in hits : /\ \A j \in hits : i <= j
                                 /\ found = Some(macro_scopes[chain[i]])

\* expand called on a span without entry whose call site and whose call
\* site's call site have different entries: the nearer one is found
C5_Witness ==
    /\ ret.op = "expand_call" /\ ret.sp = SpanA2
    /\ SpanA2 \notin DOMAIN macro_scopes
    /\ SpanA1 \in DOMAIN macro_scopes /\ SpanA \in DOMAIN macro_scopes
    /\ macro_scopes[SpanA1] # macro_scopes[SpanA]
    /\ ret.span_scope = Some(macro_scopes[SpanA1])

\* The C ABI hash functions among the items a handler returned
IsCHashFunction(it) == "synth" \in DOMAIN it /\ it.synth = "c_hash_function"
CHashFunctions(value) == SelectSeq(value, IsCHashFunction)

\* C6: the items returned for a struct, enum or union hold the C ABI hash
\* function of its name at most once, and only if the name was not in the
\* set of emitted functions before; the name is in the set afterwards and the
\* set only grows, so a later request for the name yields no function, and
\* the pass goes on.
C6_AtMostOnce ==
    (ret.op = "fold_item" /\ IsAggregate(ret.item)) =>
       LET fns == CHashFunctions(ret.value)
       IN /\ Len(fns) <= 1
          /\ \A i \in DOMAIN fns :
                /\ fns[i].name = HashFnName(ret.item.name)
                /\ fns[i].name \notin ret.emitted
                /\ fns[i].name \in c_hash_functions
          /\ ret.emitted \subseteq c_hash_functions
          /\ HashFnName(ret.item.name) \in ret.emitted => fns = <<>>

\* A type whose hash function is requested a second time in a later call of
\* expand: no function, no abort
C6_Witness ==
    /\ ret.op = "fold_item" /\ IsAggregate(ret.item)
    /\ c_hash_feature
    /\ ret.item.kind = "Union" \/ ret.config.inherited.enabled
    /\ HashFnName(ret.item.name) \in ret.emitted
    /\ CHashFunctions(ret.value) = <<>>
    /\ phase = "fold"

\* The marker C7 gives for a resolved directive
C7_Marker(x) ==
    IF x = None THEN <<>>
    ELSE CASE x[1].tag = "AsType" -> <<<<"as_type", x[1].ty>>>>
           [] x[1].tag \in {"None", "Disabled"} -> <<<<"none">>>>
           [] x[1].tag = "Fixed" -> <<<<"fixed_hash", ToString(x[1].id)>>>>
           [] x[1].tag = "Custom" -> <<<<"custom_hash", x[1].expr>>>>
           [] OTHER -> <<>>

\* C7: the attributes of a folded field hold at most one generated marker,
\* the one of the field's own resolved directive (none without directive or
\* for Default), never a cross_check directive, and the field's other
\* attributes in their order.
C7_FieldMarker ==
    ret.op = "fold_struct_field" =>
       LET x == ResolveFieldXCheck(ret.config, ret.sf_name, ret.sf.attrs)
           markers == SelectSeq(ret.attrs, LAMBDA a : a.name = "cross_check_hash")
       IN /\ Len(markers) <= 1
          /\ [i \in DOMAIN markers |-> markers[i].args] = C7_Marker(x)
          /\ \A i \in DOMAIN ret.attrs : ret.attrs[i].name # "cross_check"
          /\ SelectSeq(ret.attrs, LAMBDA a : a.name # "cross_check_hash")
                = SelectSeq(ret.sf.attrs, LAMBDA a : a.name # "cross_check")

\* The second field of a tuple body, excluded by its inline directive, after
\* a first field: it has the exclude marker and no directive
C7_Witness ==
    /\ ret.op = "fold_struct_field"
    /\ ret.sf_name = FieldInt(1)
    /\ ParseFieldAttr(ret.sf.attrs) = Some(XDisabled)
    /\ Last(frames).body = <<FieldInt(0), FieldInt(1)>>
    /\ ret.attrs = <<DocAttr, [name |-> "cross_check_hash", args |-> <<"none">>]>>

\* Two renderings of one item (with nothing inside) under one
\* configuration: the handler that returned last and the one before it
TwoRenderings ==
    /\ ret.op \in {"fold_item", "fold_impl_item"}
    /\ ret.children = 0
    /\ ret.prev # None
    /\ ret.prev[1].config = ret.config

\* C8 as stated: two renderings of one item under one configuration return
\* the same items.
C8_SameOutput == TwoRenderings => ret.value = ret.prev[1].value

\* C8: two renderings of one item under one configuration give the same
\* rewritten item and the same synthesized items but for the C ABI hash
\* function, which is not among the items of the second rendering.
C8_SameButHashFunction ==
    TwoRenderings =>
       LET other(value) == SelectSeq(value, LAMBDA it : ~IsCHashFunction(it))
       IN /\ ret.value[1] = ret.prev[1].value[1]
          /\ other(ret.value) = other(ret.prev[1].value)
          /\ CHashFunctions(ret.value) = <<>>

\* An enum rendered twice under one configuration: the first rendering has
\* the hash function and adds its name to the set, the second has not
C8_Witness ==
    /\ TwoRenderings
    /\ ret.item.kind = "Enum"
    /\ HashFnName(ret.item.name) \in ret.emitted
    /\ Len(CHashFunctions(ret.prev[1].value)) = 1
    /\ CHashFunctions(ret.value) = <<>>
    /\ ret.value[1] = ret.prev[1].value[1]
    /\ ret.value[1].attrs # <<>>

(* ------------------------- C11: local bindings -------------------------- *)

\* the value-hash statement fold_stmt builds for the binding s
ValueHash(s) == [kind |-> "cross_check_value", on |-> s.span]

\* fold_stmt has just returned for a local binding
FoldedLocal == ret.op = "fold_stmt" /\ ret.stmt.kind = "Local"

FoldedStructOrEnum ==
    ret.op = "fold_item" /\ ret.item.kind \in {"Struct", "Enum"}

\* the hasher settings and hash expression that are set in the configuration
SetHashKeys(config) ==
    {k \in {"ahasher", "shasher"} : config.inherited[k] # None}
    \cup {k \in {"field_hasher", "custom_hash"} : config.item[k] # None}

\* the attributes of the rewritten item that are the marker named a
Markers(a) == {k \in DOMAIN ret.value[1].attrs : ret.value[1].attrs[k].attr = a}

\* C12: for a struct or enum definition, when the scope is enabled the output
\* carries the derive-content-hash marker and carries a configuration marker
\* exactly when one of the aggregate hasher, simple hasher, field hasher and
\* custom hash expression is set, with exactly the set ones as its keys; when
\* the scope is not enabled no marker is attached and no C hash function is
\* requested.
C12_Markers ==
    FoldedStructOrEnum =>
        IF ret.config.inherited.enabled
        THEN /\ Cardinality(Markers("derive")) = 1
             /\ Cardinality(Markers("cross_check_hash")) =
                   IF SetHashKeys(ret.config) = {} THEN 0 ELSE 1
             /\ \A k \in Markers("cross_check_hash") :
                   /\ Len(ret.value[1].attrs[k].args) =
                         Cardinality(SetHashKeys(ret.config))
                   /\ {ret.value[1].attrs[k].args[j][1] :
                          j \in DOMAIN ret.value[1].attrs[k].args}
                      = SetHashKeys(ret.config)
        ELSE /\ ret.value[1].attrs = <<>>
             /\ c_hash_functions = ret.emitted
             /\ \A k \in DOMAIN ret.value : ~IsCHashFunction(ret.value[k])

\* a struct folded with the C hash functions on whose scope is not enabled
\* although it sets a hasher
C12_Witness ==
    /\ FoldedStructOrEnum
    /\ ret.item.kind = "Struct"
    /\ c_hash_feature
    /\ ~ret.config.inherited.enabled
    /\ SetHashKeys(ret.config) # {}
    /\ ret.value = <<Rewritten(ret.item, <<>>, None)>>

(* --------------------- C13: the directive of a field -------------------- *)

\* the external per-field entries of the configuration and the generated
\* markers of the field fold_struct_field has just returned
ExternalFields == ret.config.item.fields
FieldMarkers ==
    LET markers == SelectSeq(ret.attrs, LAMBDA a : a.name = "cross_check_hash")
    IN [i \in DOMAIN markers |-> markers[i].args]

\* C13: the directive of a field is the external entry for the field's
\* identity whenever there is one, whatever the field's inline directive is
\* (a Default entry silences an inline directive), and the inline directive
\* only when there is no such entry; whether the item is enabled plays no
\* part, and a field stops the pass only through the directive so resolved.
C13_ExternalFirst ==
    /\ ret.op = "fold_struct_field" =>
          FieldMarkers =
             IF ret.sf_name \in DOMAIN ExternalFields
             THEN C7_Marker(Some(ExternalFields[ret.sf_name]))
             ELSE C7_Marker(ParseFieldAttr(ret.sf.attrs))
    /\ (ret.op = "panic" /\ ret.in = "fold_struct_field") =>
          /\ ParseFieldAttr(ret.item.attrs) # None
          /\ ParseFieldAttr(ret.item.attrs)[1].tag = "Djb2"
          /\ ret.item.ident # None =>
                FieldStr(ret.item.ident[1])
                   \notin DOMAIN Last(scope_stack).check_config.item.fields

\* a field of an item that is not enabled, with a Default external entry
\* and an inline directive that excludes it: no marker is generated
C13_Witness ==
    /\ ret.op = "fold_struct_field"
    /\ ~ret.config.inherited.enabled
    /\ ret.sf_name \in DOMAIN ExternalFields
    /\ ExternalFields[ret.sf_name] = XDefault
    /\ ParseFieldAttr(ret.sf.attrs) = Some(XDisabled)
    /\ FieldMarkers = <<>>

(* -------------------- C14: crossing a file boundary --------------------- *)

\* A step in which build_new_scope is called (fold_item_simple on an item
\* other than the one that consumes skip_first_scope): it returns or panics
CallsBuildNewScope ==
    /\ ~skip_first_scope
    /\ \/ ret'.op = "enter"
       \/ ret'.op = "panic" /\ ret'.in = "build_new_scope"

\* the external item table of a file
FileItemTable(file) ==
    IF ExternalConfig[file] = None THEN None
    ELSE Some(NamedItemList(ExternalConfig[file][1]))

\* C14: when build_new_scope is given an item of another file than the
\* enclosing scope's and the item is no module, the pass aborts and the scope
\* stack is left as it was; in every other case a scope is pushed, and for a
\* module of another file that scope has the module's file and the external
\* item table of that file.
C14_FileBoundary ==
    [][CallsBuildNewScope =>
          LET item == ret'.item
              encl == Last(scope_stack)
          IN IF item.file # encl.file_name /\ item.kind # "Mod"
             THEN /\ phase' = "aborted"
                  /\ scope_stack' = scope_stack
                  /\ frames' = frames
             ELSE /\ phase' = "fold"
                  /\ Front(scope_stack') = scope_stack
                  /\ Last(scope_stack').file_name = item.file
                  /\ item.file # encl.file_name =>
                        Last(scope_stack').items = FileItemTable(item.file)]_vars

\* the pass has aborted in build_new_scope on a function of another file
\* than the enclosing module's
C14_Witness ==
    /\ phase = "aborted"
    /\ ret.op = "panic" /\ ret.in = "build_new_scope"
    /\ ret.item.kind = "Fn"
    /\ Last(frames).item.kind = "Mod"
    /\ ret.item.file # Last(scope_stack).file_name

(* ----------------------- C15: the pending items ------------------------- *)

\* the kind and the type name of every synthesized item of a list
Synthesized(items) == [k \in DOMAIN items |-> <<items[k].synth, items[k].ident>>]

\* what the rewriting of the item itself synthesizes, given the hash
\* functions emitted before: the hash implementation of a union, then the C
\* hash function of a union or of an enabled struct or enum, if it is new
OwnSynthesized(item, config, emitted) ==
    (IF item.kind = "Union" THEN <<<<"union_hash_impl", item.name>>>> ELSE <<>>)
    \o (IF /\ c_hash_feature
           /\ \/ item.kind = "Union"
              \/ item.kind \in {"Struct", "Enum"} /\ config.inherited.enabled
           /\ HashFnName(item.name) \notin emitted
        THEN <<<<"c_hash_function", item.name>>>> ELSE <<>>)

\* between two returns of fold_item the queue holds only the hash
\* implementations of the foreign types of the foreign module being folded
PendingOfForeignMod ==
    (phase = "fold" /\ pending_items # <<>>) =>
        /\ Last(frames).item.kind = "ForeignMod"
        /\ Len(pending_items) <= Last(frames).children
        /\ \A k \in DOMAIN pending_items :
              pending_items[k].synth = "foreign_hash_impl"

\* fold_foreign_item queues one hash implementation for a foreign type and
\* nothing for another foreign item
QueuesForeignType ==
    ret'.op = "fold_foreign_item" =>
        /\ SubSeq(pending_items', 1, Len(pending_items)) = pending_items
        /\ Synthesized(SubSeq(pending_items', Len(pending_items) + 1,
                              Len(pending_items')))
           = IF ret'.ni.kind = "Ty"
             THEN <<<<"foreign_hash_impl", ret'.ni.name>>>> ELSE <<>>

\* fold_item returns the item, then the queued items, then what the item
\* itself synthesized, and leaves the queue empty
SplicesPending ==
    ret'.op = "fold_item" =>
        /\ ret'.value[1].item = ret'.item
        /\ SubSeq(ret'.value, 2, 1 + Len(pending_items)) = pending_items
        /\ Synthesized(SubSeq(ret'.value, 2 + Len(pending_items), Len(ret'.value)))
           = OwnSynthesized(ret'.item, ret'.config, c_hash_functions)
        /\ pending_items' = <<>>

\* C15: the items synthesized while an item is rewritten (the hash
\* implementation of a union, those of foreign types, C hash functions) are
\* returned by fold_item right after that item, each once and in the order
\* they were made, and the queue of pending items is empty when fold_item
\* returns; nothing queued is lost, repeated or returned after another item.
C15_PendingSpliced ==
    /\ []PendingOfForeignMod
    /\ [][QueuesForeignType /\ SplicesPending]_vars

\* fold_item has returned a foreign module followed by the hash
\* implementations of its two foreign types
C15_Witness ==
    /\ ret.op = "fold_item"
    /\ ret.item.kind = "ForeignMod"
    /\ Synthesized(Tail(ret.value))
       = <<<<"foreign_hash_impl", "T">>, <<"foreign_hash_impl", "T">>>>
    /\ pending_items = <<>>

(* ------------------------- C16: the scope stack ------------------------- *)

\* the frames of the items and methods being rewritten (frame 1 is expand's)
ItemFrames == 2..Len(frames)

\* C16: while the engine runs the scope stack is never empty and holds the
\* initial scope and one scope for every item or method being rewritten but
\* the root item, which alone is rewritten under the initial scope; the flag
\* skip_first_scope is set until the root item is entered and never after;
\* the scope on top is the one built for the item being rewritten from the
\* scope below it; so when fold_item_simple returns the stack is as deep as
\* it was before the call.
C16_PushPop ==
    phase # "idle" =>
        /\ scope_stack # <<>>
        /\ Len(scope_stack) = 1 + Cardinality({k \in ItemFrames : frames[k].scoped})
        /\ \A k \in ItemFrames : frames[k].scoped = (k > 2)
        /\ Len(scope_stack) = IF Len(frames) <= 2 THEN 1 ELSE Len(frames) - 1
        /\ skip_first_scope = (Len(frames) = 1 /\ frames[1].res = None)
        /\ \A k \in ItemFrames :
              k > 2 =>
                 LET built == BuildNewScope(scope_stack[k - 2], frames[k].item)
                 IN /\ scope_stack[k - 1].check_config = built.check_config
                    /\ scope_stack[k - 1].file_name = built.file_name
                    /\ scope_stack[k - 1].items = built.items

\* a method has returned inside an impl inside the root module: its scope
\* is popped, the impl's is on top of the module's initial scope
C16_Witness ==
    /\ phase = "fold"
    /\ ret.op = "fold_impl_item"
    /\ Len(frames) = 3
    /\ frames[2].item.kind = "Mod" /\ ~frames[2].scoped
    /\ frames[3].item.kind = "Impl" /\ frames[3].scoped
    /\ Len(scope_stack) = 2
    /\ ~skip_first_scope

(* ------------------- C18: items expand leaves alone --------------------- *)

\* A step in which expand is called; it returns at once or calls the engine
ExpandIsCalled == phase = "idle" /\ ret'.op \in {"expand", "expand_call"}

\* C18: when expand is given an item that is no module and find_span_scope
\* finds no scope for the span, it returns the item as it is, no engine is
\* run and macro_scopes and c_hash_functions are left as they were; the
\* engine is run only for a module or under a scope found for the span.
C18_OthersLeftAlone ==
    [][ExpandIsCalled =>
          IF ret'.op = "expand"
          THEN /\ ret'.item.kind # "Mod"
               /\ \E sp \in Spans : /\ SpanToFilename(sp) = ret'.item.file
                                    /\ FindSpanScope(macro_scopes, sp) = None
               /\ ret'.value = <<Rewritten(ret'.item, <<>>, None)>>
               /\ phase' = "idle"
               /\ macro_scopes' = macro_scopes
               /\ c_hash_functions' = c_hash_functions
               /\ frames' = <<>> /\ scope_stack' = <<>>
          ELSE /\ ret'.span_scope = FindSpanScope(macro_scopes, ret'.sp)
               /\ ret'.item.kind = "Mod" \/ ret'.span_scope # None
               /\ phase' = "fold"]_vars

\* expand has returned a function as it is although spans are recorded:
\* none of them is the function's
C18_Witness ==
    /\ phase = "idle"
    /\ ret.op = "expand" /\ ~ret.engine
    /\ ret.item.kind = "Fn"
    /\ macro_scopes # <<>>
    /\ ret.value = <<Rewritten(ret.item, <<>>, None)>>

(* ------------------- C19: one item out of expand ------------------------ *)

\* fold_item has returned to expand: what it returned for the root item
RootResult == frames[1].res[1]
RootReturned == phase = "fold" /\ Len(frames) = 1 /\ frames[1].res # None

\* expand has returned one item, the rewritten root item
ReturnsRoot ==
    (ret.op = "expand" /\ ret.engine) =>
        /\ Len(ret.value) = 1
        /\ ret.value[1].item = ret.item
        /\ phase = "idle"

\* expect_one has panicked on the root item followed by synthesized items
AbortsOnMore ==
    (ret.op = "panic" /\ ret.in = "expect_one") =>
        /\ phase = "aborted"
        /\ RootResult[1].item = ret.item
        /\ Len(RootResult) > 1
        /\ \A k \in 2..Len(RootResult) : "synth" \in DOMAIN RootResult[k]

\* C19: expand returns exactly one item or the pass aborts: when the
\* rewriting of the root item leaves synthesized items after it, expand
\* panics in expect_one and returns nothing; otherwise it returns the one
\* rewritten root item.
C19_OneItemOrAbort ==
    /\ [](ReturnsRoot /\ AbortsOnMore)
    /\ [][RootReturned =>
             IF Len(RootResult) = 1
             THEN ret'.op = "expand" /\ ret'.engine /\ ret'.value = RootResult
             ELSE ret'.op = "panic" /\ ret'.in = "expect_one" /\ phase' = "aborted"]_vars

\* the pass has aborted in expect_one on a foreign module given to expand
\* under a scope found for its span, with the hash implementation of its
\* foreign type after it
C19_Witness ==
    /\ phase = "aborted"
    /\ ret.op = "panic" /\ ret.in = "expect_one"
    /\ ret.item.kind = "ForeignMod"
    /\ Synthesized(Tail(RootResult)) = <<<<"foreign_hash_impl", "T">>>>

(* ----------------------- C17: the RefCell borrows ----------------------- *)

\* the calls of the function named fn that are in progress
CallsOf(fn) == {k \in DOMAIN calls : calls[k].fn = fn}

\* C17: no borrow of macro_scopes or c_hash_functions is ever refused, also
\* when expand is entered again under a running engine: the shared borrows
\* of macro_scopes are those of the calls of find_span_scope in progress,
\* which are on top of the stack of calls, so none is held while an engine
\* runs or expand matches on what was found; an exclusive borrow is held
\* only while the insert that took it is the call on top; c_hash_functions
\* is never borrowed shared.
C17_BorrowsReleased ==
    /\ ~(ret.op = "panic" /\ ret.in \in {"borrow", "borrow_mut"})
    /\ borrow_flags.macro_scopes.shared = Cardinality(CallsOf("find_span_scope"))
    /\ \A k \in CallsOf("find_span_scope") :
          \A j \in k..Len(calls) : calls[j].fn = "find_span_scope"
    /\ (calls # <<>> /\ Last(calls).fn = "engine") =>
          borrow_flags = NoBorrows
    /\ (calls # <<>> /\ Last(calls).fn = "expand" /\ Last(calls).pc = "found") =>
          borrow_flags = NoBorrows
    /\ borrow_flags.macro_scopes.exclusive =
          (calls # <<>> /\ Last(calls).fn = "insert_macro_scope")
    /\ borrow_flags.macro_scopes.exclusive => borrow_flags.macro_scopes.shared = 0
    /\ borrow_flags.c_hash_functions.exclusive =
          (calls # <<>> /\ Last(calls).fn = "build_type_c_hash_function")
    /\ borrow_flags.c_hash_functions.shared = 0

\* an engine entered from expand under a running engine is inserting into
\* macro_scopes, where spans are recorded: it holds the only borrow
C17_Witness ==
    /\ expand_macros
    /\ Len(calls) = 3
    /\ calls[1].fn = "engine"
    /\ calls[2].fn = "engine"
    /\ calls[3].fn = "insert_macro_scope"
    /\ macro_scopes # <<>>
    /\ borrow_flags.macro_scopes = [shared |-> 0, exclusive |-> TRUE]

====
